---- MODULE Spec2Model ----
(***************************************************************************)
(* Hybrid retrieval engine of lumawell_Backend/graph/retriever.py:         *)
(* chunking, fingerprinted index cache, topic-gated score fusion and       *)
(* thresholded top-k ranking.                                              *)
(*                                                                         *)
(* Texts are sequences of one-character strings; a character outside ASCII *)
(* is written as its code point ("U75D8").  Scores are fixed-point numbers *)
(* with Scale = 1000 standing for 1.0.                                     *)
(***************************************************************************)
EXTENDS Integers, Sequences, FiniteSets, TLC

\* ------------------------------------------------------------------ bounds
\* Largest modification time a source file takes.
MaxMtime == 2
\* Largest k a caller passes to search.
MaxK == 2
\* Most constructions and environment events (file writes and removals, cache
\* damage, process restarts) in a run of Spec.
MaxSteps == 4
\* Longest document, largest size and largest overlap handed to _chunk_text
\* on its own.
MaxLen == 5
MaxSize == 3
MaxOverlap == 2
\* Most name parts a file name handed to _topic_of on its own is made of.
MaxParts == 2

\* ------------------------------------------------------------ text helpers
Scale == 1000

None == "None"

\* None where the value otherwise is a record
NoneObj == [none |-> TRUE]

\* A function on 1..n as a tuple of its values.
Seq_(f) == f \o <<>>

\* F applied to the value v: a local name bound to a value computed once.
Let(v, F(_)) == F(v)

\* A function with its values computed.
Force(f) == IF f = f THEN f ELSE f

Min2(a, b) == IF a <= b THEN a ELSE b
Max2(a, b) == IF a >= b THEN a ELSE b

IsSpace(c) == c \in {" ", "\n", "\t"}

RECURSIVE LStrip(_)
LStrip(s) == IF s # <<>> /\ IsSpace(Head(s)) THEN LStrip(Tail(s)) ELSE s

RECURSIVE RStrip(_)
RStrip(s) ==
    IF s # <<>> /\ IsSpace(s[Len(s)]) THEN RStrip(SubSeq(s, 1, Len(s) - 1)) ELSE s

\* str.strip()
Strip(s) == RStrip(LStrip(s))

\* s[:n] for n >= 0
Prefix(s, n) == SubSeq(s, 1, Min2(n, Len(s)))

\* s[-n:] for n > 0
Suffix(s, n) == SubSeq(s, Max2(1, Len(s) - n + 1), Len(s))

\* sub in s
Contains(s, sub) ==
    \E i \in 0..(Len(s) - Len(sub)) : SubSeq(s, i + 1, i + Len(sub)) = sub

Upper == <<"A","B","C","D","E","F","G","H","I","J","K","L","M",
           "N","O","P","Q","R","S","T","U","V","W","X","Y","Z">>
LowerOf == <<"a","b","c","d","e","f","g","h","i","j","k","l","m",
             "n","o","p","q","r","s","t","u","v","w","x","y","z">>

LowerChar(c) ==
    Let(Upper, LAMBDA up :
        IF \E i \in 1..Len(up) : up[i] = c
        THEN LowerOf[CHOOSE i \in 1..Len(up) : up[i] = c]
        ELSE c)

\* str.lower()
Lower(s) == [i \in 1..Len(s) |-> LowerChar(s[i])]

Digits == <<"0","1","2","3","4","5","6","7","8","9">>

\* str(n) for n >= 0
RECURSIVE Str(_)
Str(n) == IF n < 10 THEN <<Digits[n + 1]>> ELSE Append(Str(n \div 10), Digits[(n % 10) + 1])

\* Characters in code-point order, for comparing names as sorted() does.
CodeOrder == <<"\t", "\n", " ", ".", "/",
               "0","1","2","3","4","5","6","7","8","9",
               "A","B","C","D","E","F","G","H","I","J","K","L","M",
               "N","O","P","Q","R","S","T","U","V","W","X","Y","Z",
               "a","b","c","d","e","f","g","h","i","j","k","l","m",
               "n","o","p","q","r","s","t","u","v","w","x","y","z",
               "U57FA","U62A4","U7840","U7EC3","U80A4","U8BAD","U98DF","U996E">>

Ord(c) ==
    Let(CodeOrder, LAMBDA order :
        IF \E i \in 1..Len(order) : order[i] = c
        THEN CHOOSE i \in 1..Len(order) : order[i] = c
        ELSE Len(order) + 1)

RECURSIVE StrLess(_, _)
StrLess(a, b) ==
    IF b = <<>> THEN FALSE
    ELSE IF a = <<>> THEN TRUE
    ELSE Let(Ord(Head(a)), LAMBDA x :
         Let(Ord(Head(b)), LAMBDA y :
             IF x # y THEN x < y ELSE StrLess(Tail(a), Tail(b))))

\* --------------------------------------------------------------- _chunk_text
RECURSIVE NewlineRun(_, _)
NewlineRun(s, i) ==
    IF i <= Len(s) /\ s[i] = "\n" THEN 1 + NewlineRun(s, i + 1) ELSE 0

\* re.split(r"\n{2,}", text): the pieces between maximal runs of two or more
\* newlines, empty pieces included.
RECURSIVE SplitBlank(_, _, _)
SplitBlank(s, i, cur) ==
    IF i > Len(s) THEN <<cur>>
    ELSE IF NewlineRun(s, i) >= 2
         THEN <<cur>> \o SplitBlank(s, i + NewlineRun(s, i), <<>>)
         ELSE SplitBlank(s, i + 1, Append(cur, s[i]))

RECURSIVE StripNonEmpty(_)
StripNonEmpty(pieces) ==
    IF pieces = <<>> THEN <<>>
    ELSE IF Strip(Head(pieces)) # <<>>
         THEN <<Strip(Head(pieces))>> \o StripNonEmpty(Tail(pieces))
         ELSE StripNonEmpty(Tail(pieces))

Paras(text) ==
    Let(StripNonEmpty(SplitBlank(text, 1, <<>>)), LAMBDA ps :
        IF ps = <<>> THEN <<text>> ELSE ps)

\* the packing loop testing len(buf) + len(p) <= size, the joining newline
\* not counted
RECURSIVE PackFrom_NoSeparator(_, _, _, _, _)
PackFrom_NoSeparator(paras, i, chunks, buf, size) ==
    IF i > Len(paras) THEN <<chunks, buf>>
    ELSE LET p == paras[i]
         IN  IF Len(buf) + Len(p) <= size
             THEN PackFrom_NoSeparator(paras, i + 1, chunks,
                           buf \o (IF buf # <<>> THEN <<"\n">> ELSE <<>>) \o p, size)
             ELSE PackFrom_NoSeparator(paras, i + 1,
                           IF buf # <<>> THEN Append(chunks, buf) ELSE chunks, p, size)

\* The packing loop: <<chunks, buf>> after the paragraphs from i on.
RECURSIVE PackFrom(_, _, _, _, _)
PackFrom(paras, i, chunks, buf, size) ==
    IF i > Len(paras) THEN <<chunks, buf>>
    ELSE LET p == paras[i]
         IN  IF Len(buf) + Len(p) + 1 <= size
             THEN PackFrom(paras, i + 1, chunks,
                           buf \o (IF buf # <<>> THEN <<"\n">> ELSE <<>>) \o p, size)
             ELSE PackFrom(paras, i + 1,
                           IF buf # <<>> THEN Append(chunks, buf) ELSE chunks, p, size)

\* the packing loop closing its buffer without the test `if buf`
Packed_KeepEmpty(text, size) ==
    Let(PackFrom(Paras(text), 1, <<>>, <<>>, size), LAMBDA r : Append(r[1], r[2]))

Packed(text, size) ==
    Let(PackFrom(Paras(text), 1, <<>>, <<>>, size), LAMBDA r :
        IF r[2] # <<>> THEN Append(r[1], r[2]) ELSE r[1])

\* the overlap loop appending the head to the fragment it keeps
OverlapOf_Append(chunks, i, size, overlap) ==
    IF i < Len(chunks) /\ overlap > 0
    THEN chunks[i] \o Prefix(chunks[i + 1], Max2(0, size - Min2(overlap, Len(chunks[i]))))
    ELSE chunks[i]

OverlapOf(chunks, i, size, overlap) ==
    LET ch == chunks[i]
    IN  IF i < Len(chunks) /\ overlap > 0
        THEN LET tail == Suffix(ch, overlap)
                 head == Prefix(chunks[i + 1], Max2(0, size - Len(tail)))
             IN  IF head # <<>> THEN tail \o head ELSE ch
        ELSE ch

chunk_text(text, size, overlap) ==
    Let(Packed(text, size), LAMBDA chunks :
        [i \in 1..Len(chunks) |-> OverlapOf(chunks, i, size, overlap)])

\* ------------------------------------------------------------------ topics
\* the rules of _topic_of with the diet rule tried first
topic_of_DietFirst(name) ==
    Let(Lower(name), LAMBDA n :
        IF Contains(n, <<"d","i","e","t">>) \/ Contains(n, <<"n","u","t","r","i">>)
        THEN "diet"
        ELSE IF Contains(n, <<"s","k","i","n">>) \/ Contains(n, <<"c","a","r","e">>)
        THEN "skincare"
        ELSE IF Contains(n, <<"e","x","e","r","c","i","s","e">>)
                \/ Contains(n, <<"t","r","a","i","n">>)
        THEN "exercise"
        ELSE IF Contains(n, <<"s","l","e","e","p">>) THEN "sleep"
        ELSE IF Contains(n, <<"p","s","y","c","h","o","l","o","g","y">>)
        THEN "psychology"
        ELSE "general")

topic_of(name) ==
    Let(Lower(name), LAMBDA n :
        IF Contains(n, <<"s","k","i","n">>) \/ Contains(n, <<"c","a","r","e">>)
        THEN "skincare"
        ELSE IF Contains(n, <<"e","x","e","r","c","i","s","e">>)
                \/ Contains(n, <<"t","r","a","i","n">>)
        THEN "exercise"
        ELSE IF Contains(n, <<"d","i","e","t">>) \/ Contains(n, <<"n","u","t","r","i">>)
        THEN "diet"
        ELSE IF Contains(n, <<"s","l","e","e","p">>) THEN "sleep"
        ELSE IF Contains(n, <<"p","s","y","c","h","o","l","o","g","y">>)
        THEN "psychology"
        ELSE "general")

SkincareKw ==
    {<<"U62A4","U80A4">>, <<"U75D8">>, <<"U95ED","U53E3">>, <<"U7F8E","U767D">>,
     <<"a","U9187">>, <<"U679C","U9178">>, <<"v","c">>, <<"U9632","U6652">>,
     <<"U654F","U611F","U808C">>, <<"U6C34","U6768","U9178">>, <<"U8131","U76AE">>,
     <<"U5E72","U71E5">>, <<"U8D77","U76AE">>}
ExerciseKw ==
    {<<"U8BAD","U7EC3">>, <<"U529B","U91CF">>, <<"U808C","U8089">>, <<"U6709","U6C27">>,
     <<"h","i","i","t">>, <<"U8DD1","U6B65">>, <<"U8FD0","U52A8">>, <<"U62C9","U4F38">>,
     <<"U6062","U590D">>}
DietKw ==
    {<<"U996E","U98DF">>, <<"U70ED","U91CF">>, <<"t","d","e","e">>, <<"U86CB","U767D">>,
     <<"U78B3","U6C34">>, <<"U8102","U80AA">>, <<"U51CF","U8102">>, <<"U589E","U808C">>,
     <<"U8425","U517B">>}
SleepKw ==
    {<<"U7761","U7720">>, <<"U5931","U7720">>, <<"U4F5C","U606F">>,
     <<"U751F","U7269","U949F">>}
PsychologyKw ==
    {<<"U60C5","U7EEA">>, <<"U538B","U529B">>, <<"U7126","U8651">>, <<"U81EA","U5F8B">>,
     <<"U5FC3","U7406">>}

infer_topic(query) ==
    Let(Lower(query), LAMBDA q :
        IF \E kw \in SkincareKw : Contains(q, kw) THEN "skincare"
        ELSE IF \E kw \in ExerciseKw : Contains(q, kw) THEN "exercise"
        ELSE IF \E kw \in DietKw : Contains(q, kw) THEN "diet"
        ELSE IF \E kw \in SleepKw : Contains(q, kw) THEN "sleep"
        ELSE IF \E kw \in PsychologyKw : Contains(q, kw) THEN "psychology"
        ELSE None)

\* ------------------------------------------------ embedding model (external)
\* SentenceTransformer.encode with normalize_embeddings=True is consumed as a
\* deterministic function (model, text) -> unit vector.  Vectors are integer
\* pairs of norm 100; the function below is one fixed such model per name.
UnitVecs ==
    << <<100, 0>>, <<80, 60>>, <<60, 80>>, <<0, 100>>,
       <<-60, 80>>, <<-100, 0>>, <<0, -100>>, <<80, -60>> >>

RECURSIVE TextHash(_, _)
TextHash(s, i) == IF i > Len(s) THEN 0 ELSE Ord(s[i]) * i + TextHash(s, i + 1)

ModelNames == {"m3", "m4"}

ModelSeed(model) == IF model = "m3" THEN 1 ELSE 3

encode(model, text) ==
    UnitVecs[((TextHash(text, 1) * ModelSeed(model)) % Len(UnitVecs)) + 1]

PassagePrefix == <<"passage: ">>
QueryPrefix == <<"query: ">>

Dot(u, v) == u[1] * v[1] + u[2] * v[2]

\* ------------------------------------------------- TfidfVectorizer (external)
\* tfidf_ngram, the constructor's default
DefaultNgram == <<2, 4>>

\* analyzer="char": runs of two or more white-space characters become one
\* space, then every character n-gram with n in the n-gram range is a term.
RECURSIVE SpaceRun(_, _)
SpaceRun(s, i) == IF i <= Len(s) /\ IsSpace(s[i]) THEN 1 + SpaceRun(s, i + 1) ELSE 0

RECURSIVE CollapseSpaces(_, _)
CollapseSpaces(s, i) ==
    IF i > Len(s) THEN <<>>
    ELSE IF SpaceRun(s, i) >= 2
         THEN <<" ">> \o CollapseSpaces(s, i + SpaceRun(s, i))
         ELSE <<s[i]>> \o CollapseSpaces(s, i + 1)

CharNgrams(text, ngram) ==
    Let(CollapseSpaces(text, 1), LAMBDA t :
        {SubSeq(t, i, i + n - 1) :
            <<n, i>> \in {<<n, i>> \in (ngram[1]..ngram[2]) \X (1..Len(t)) :
                             i + n - 1 <= Len(t)}})

DocFreq(term, texts, ngram) ==
    Cardinality({i \in 1..Len(texts) : term \in CharNgrams(texts[i], ngram)})

\* fit_transform: the vocabulary keeps the terms whose document frequency is at
\* most max_df * n_docs; the fit raises ValueError when there is no term at
\* all, when max_df * n_docs < 1, or when no term survives the cut.  A row
\* holds the vocabulary terms of its text (unit weights).
tfidf_fit(texts, max_df_pct, ngram) ==
    Let(Len(texts), LAMBDA n :
    Let(UNION {CharNgrams(texts[i], ngram) : i \in 1..n}, LAMBDA all :
    Let({t \in all : DocFreq(t, texts, ngram) * 100 <= max_df_pct * n}, LAMBDA vocab :
        IF all = {} \/ max_df_pct * n < 100 \/ vocab = {}
        THEN [raised |-> TRUE, vec |-> NoneObj, mat |-> NoneObj]
        ELSE [raised |-> FALSE,
              vec |-> [none |-> FALSE, ngram |-> ngram, vocabulary |-> vocab],
              mat |-> [none |-> FALSE,
                       rows |-> [i \in 1..n |->
                                    CharNgrams(texts[i], ngram) \cap vocab]]])))

\* transform([query]): the query's n-grams that are in the fitted vocabulary
tfidf_transform(vec, query_ngrams) == query_ngrams \cap vec.vocabulary

SeqMin(xs) == CHOOSE m \in {xs[i] : i \in 1..Len(xs)} : \A i \in 1..Len(xs) : m <= xs[i]
SeqMax(xs) == CHOOSE m \in {xs[i] : i \in 1..Len(xs)} : \A i \in 1..Len(xs) : m >= xs[i]

\* sklearn.preprocessing.minmax_scale to (0, 1); a constant vector scales to 0
minmax_scale(xs) ==
    IF Len(xs) = 0 THEN xs
    ELSE Let(SeqMin(xs), LAMBDA lo :
         Let(SeqMax(xs) - lo, LAMBDA range :
             Seq_([i \in 1..Len(xs) |->
                     IF range = 0 THEN 0 ELSE ((xs[i] - lo) * Scale) \div range])))

\* clip without its upper bound
clip_no_upper(x) == IF x < 0 THEN 0 ELSE x

\* np.clip(x, 0.0, 1.0)
\* a clamp that wraps a score above 1.0 around instead of cutting it
clip_wraps(x) == IF x < 0 THEN 0 ELSE IF x > Scale THEN x - Scale ELSE x

clip(x) == IF x < 0 THEN 0 ELSE IF x > Scale THEN Scale ELSE x

\* -------------------------------------------------------------------- search
\* The order np.argsort (default kind, not stable) gives equal keys is fixed by
\* the numpy build: TieOrders are the builds considered.
TieOrders == {"lower_first", "higher_first"}

\* the order of np.argsort(h): ascending scores
Before_Ascending(h, i, j, ties) ==
    \/ h[i] < h[j]
    \/ h[i] = h[j] /\ (IF ties = "lower_first" THEN i <= j ELSE i >= j)

Before(h, i, j, ties) ==
    \/ h[i] > h[j]
    \/ h[i] = h[j] /\ (IF ties = "lower_first" THEN i <= j ELSE i >= j)

\* idx[np.argsort(-h[idx])] for a set of positions idx
RECURSIVE ArgsortDesc(_, _, _)
ArgsortDesc(h, idx, ties) ==
    IF idx = {} THEN <<>>
    ELSE Let(CHOOSE i \in idx : \A j \in idx : Before(h, i, j, ties), LAMBDA b :
             <<b>> \o ArgsortDesc(h, idx \ {b}, ties))

\* seq[:k], k of either sign
Take(seq, k) ==
    IF k >= 0 THEN Prefix(seq, k) ELSE Prefix(seq, Max2(0, Len(seq) + k))

\* The query texts of the model: no topic keyword, a skincare keyword in
\* upper case, a diet keyword.
Queries == {<<"a","b">>, <<"V","C","b","a">>, <<"t","d","e","e">>}

\* What search derives from the query text alone, tabulated over Queries.
QueryTable ==
    Force([q \in Queries |->
              [hint |-> infer_topic(q),
               qv |-> [m \in ModelNames |-> encode(m, QueryPrefix \o q)],
               ngrams |-> CharNgrams(q, DefaultNgram)]])

\* self.embed_mat @ qv
sims_embed_raw(s, query) ==
    LET qv == QueryTable[query].qv[s.model]
    IN  Seq_([i \in 1..Len(s.embed_mat) |-> Dot(s.embed_mat[i], qv) \div 10])

\* the min-max scaled lexical similarities, or zeros_like(sims_embed)
sims_tfidf_raw(s, query) ==
    IF s.enable_hybrid /\ s.tfidf_vec # NoneObj
    THEN Let(tfidf_transform(s.tfidf_vec, QueryTable[query].ngrams), LAMBDA q_tfidf :
             minmax_scale(Seq_([i \in 1..Len(s.tfidf_mat.rows) |->
                                   Cardinality(s.tfidf_mat.rows[i] \cap q_tfidf)])))
    ELSE Seq_([i \in 1..Len(s.embed_mat) |-> 0])

\* np.where with its two factors exchanged
GateFactors_Swapped(s, query) ==
    Let(QueryTable[query].hint, LAMBDA hint :
        Seq_([i \in 1..Len(s.chunks) |->
                IF hint = None THEN Scale
                ELSE IF s.chunks[i].meta.topic = hint THEN s.off_topic_penalty
                ELSE s.topic_boost]))

\* gating without the test `if hint`, a query without hint counting as general
GateFactors_GeneralDefault(s, query) ==
    Let(QueryTable[query].hint, LAMBDA hint :
        Seq_([i \in 1..Len(s.chunks) |->
                IF s.chunks[i].meta.topic = (IF hint = None THEN "general" ELSE hint)
                THEN s.topic_boost
                ELSE s.off_topic_penalty]))

\* np.where(match, topic_boost, off_topic_penalty); no hint leaves the scores
GateFactors(s, query) ==
    Let(QueryTable[query].hint, LAMBDA hint :
        Seq_([i \in 1..Len(s.chunks) |->
                IF hint = None THEN Scale
                ELSE IF s.chunks[i].meta.topic = hint THEN s.topic_boost
                ELSE s.off_topic_penalty]))

\* sims *= factors
Gate(sims, factors) ==
    Seq_([i \in 1..Len(sims) |-> (sims[i] * factors[i]) \div Scale])

ClipAll(sims) == Seq_([i \in 1..Len(sims) |-> clip(sims[i])])

Fuse(s, e, t) == (s.embed_weight * e + s.tfidf_weight * t) \div Scale

\* the score arrays of a search that fuses the gated similarities before
\* clamping them
Scores_FuseUnclamped(s, query) ==
    Let(GateFactors(s, query), LAMBDA g :
    Let(Gate(sims_embed_raw(s, query), g), LAMBDA e :
    Let(Gate(sims_tfidf_raw(s, query), g), LAMBDA t :
        [sims_embed |-> ClipAll(e), sims_tfidf |-> ClipAll(t),
         sims_hybrid |-> ClipAll(Seq_([i \in 1..Len(e) |-> Fuse(s, e[i], t[i])]))])))

\* The three score arrays of a search, after gating and clamping.
Scores(s, query) ==
    Let(GateFactors(s, query), LAMBDA g :
    Let(ClipAll(Gate(sims_embed_raw(s, query), g)), LAMBDA e :
    Let(ClipAll(Gate(sims_tfidf_raw(s, query), g)), LAMBDA t :
        [sims_embed |-> e, sims_tfidf |-> t,
         sims_hybrid |-> ClipAll(Seq_([i \in 1..Len(e) |-> Fuse(s, e[i], t[i])]))])))

\* np.where(sims_hybrid >= self.min_score)[0]
Cand(s, h) == {i \in 1..Len(h) : h[i] >= s.min_score}

\* idxs without the fallback to every fragment
idxs_no_fallback(s, h, k, ties) == Take(ArgsortDesc(h, Cand(s, h), ties), k)

\* idxs ranking every fragment and only then cutting at k
idxs_unfiltered(s, h, k, ties) == Take(ArgsortDesc(h, 1..Len(h), ties), k)

idxs(s, h, k, ties) ==
    Let(Cand(s, h), LAMBDA cand :
        IF cand # {} THEN Take(ArgsortDesc(h, cand, ties), k)
        ELSE Take(ArgsortDesc(h, 1..Len(h), ties), k))

Result(s, sc, i, rank) ==
    [idx |-> i,
     text |-> s.chunks[i].text,
     meta |-> [path |-> s.chunks[i].meta.path,
               chunk_id |-> s.chunks[i].meta.chunk_id,
               topic |-> s.chunks[i].meta.topic,
               score_embed |-> sc.sims_embed[i],
               score_tfidf |-> sc.sims_tfidf[i],
               score_hybrid |-> sc.sims_hybrid[i]],
     score |-> sc.sims_hybrid[i],
     rank |-> Str(rank)]

\* search raises when a matrix product is undefined: an empty dense matrix
\* (encode([]) has no second dimension), or a lexical vectorizer whose matrix
\* is missing.
SearchRaises(s) ==
    \/ Len(s.embed_mat) = 0
    \/ s.enable_hybrid /\ s.tfidf_vec # NoneObj /\ s.tfidf_mat = NoneObj

\* One call of search: what it returns (or that it raised), with its
\* sims_hybrid array.
SearchCall(s, query, k, ties) ==
    IF SearchRaises(s) THEN [raised |-> TRUE, results |-> <<>>, sims_hybrid |-> <<>>]
    ELSE Let(Scores(s, query), LAMBDA sc :
         Let(idxs(s, sc.sims_hybrid, k, ties), LAMBDA ix :
             [raised |-> FALSE,
              results |-> Seq_([r \in 1..Len(ix) |-> Result(s, sc, ix[r], r)]),
              sims_hybrid |-> sc.sims_hybrid]))

search(s, query, k, ties) ==
    Let(SearchCall(s, query, k, ties), LAMBDA c :
        [raised |-> c.raised, results |-> c.results])

\* ------------------------------------------------------------ program state
VARIABLES
    files,   \* the *.md files of kb_dir: name -> [text, mtime] or NoFile
    cache,   \* the file at cache_path
    MODEL,   \* ChunkedSemanticRetriever._MODEL of the running process
    svc,     \* the retriever the last construction returned, or NoSvc
    ties,    \* the tie order of the numpy build's argsort
    last,    \* what the last call did and returned
    memo,    \* an earlier search call and its result
    steps    \* calls and environment events so far

vars == <<files, cache, MODEL, svc, ties, last, memo, steps>>

NoFile == [exists |-> FALSE]
NoSvc == [kind |-> "none"]
NoCache == [kind |-> "none"]
\* a cache file pickle.load cannot read (truncated, overwritten, not a pickle)
BadCache == [kind |-> "garbage"]
NoCall == [op |-> "none"]
NoMemo == [set |-> FALSE]

SkinMd == <<"s","k","i","n",".","m","d">>
DietMd == <<"d","i","e","t",".","m","d">>
Names == {SkinMd, DietMd}

DocEmpty == <<>>
DocOne == <<"a","b">>
DocTwo == <<"a","b","\n","\n","b","a">>
Docs == {DocEmpty, DocOne, DocTwo}

FileStates ==
    {NoFile} \cup [exists : {TRUE}, text : Docs, mtime : 1..MaxMtime]

CODE_REV == "hybrid-v2-gating-no_prefix"
KbDir == "kb"
CacheKeys == {"fingerprint", "chunks", "embed_mat", "tfidf_vec", "tfidf_mat"}

\* The constructor's arguments; sizes are scaled to the short texts above.
DefaultCfg ==
    [model_name |-> "m3", chunk_size |-> 3, overlap |-> 1,
     min_score |-> 150, topic_boost |-> 1300, off_topic_penalty |-> 600,
     enable_hybrid |-> TRUE, tfidf_max_df |-> 95, tfidf_ngram |-> DefaultNgram,
     embed_weight |-> 700, tfidf_weight |-> 300]

\* The configurations of the constructions of Spec (cache and model handle)
Cfgs ==
    {[DefaultCfg EXCEPT !.model_name = m, !.enable_hybrid = h] :
        <<m, h>> \in ModelNames \X BOOLEAN}

\* ... and of SpecSearch (ranking): weights need not sum to 1
SearchCfgs ==
    {DefaultCfg,
     [DefaultCfg EXCEPT !.enable_hybrid = FALSE],
     [DefaultCfg EXCEPT !.embed_weight = 1000, !.tfidf_weight = 1000],
     [DefaultCfg EXCEPT !.min_score = 1500]}

AllCfgs == Cfgs \cup SearchCfgs

\* kb_path.glob("*.md")
IsMd(name) == Len(name) >= 3 /\ SubSeq(name, Len(name) - 2, Len(name)) = <<".","m","d">>

\* sorted(...)
RECURSIVE SortNames(_)
SortNames(S) ==
    IF S = {} THEN <<>>
    ELSE Let(CHOOSE a \in S : \A b \in S : a = b \/ StrLess(a, b), LAMBDA m :
             <<m>> \o SortNames(S \ {m}))

GlobMd(fs) == SortNames({n \in DOMAIN fs : fs[n].exists /\ IsMd(n)})

\* str(f)
PathStr(name) == <<KbDir, "/">> \o name

\* _fp hashing the paths alone
RECURSIVE FpFiles_NoMtime(_, _, _)
FpFiles_NoMtime(fs, names, i) ==
    IF i > Len(names) THEN <<>>
    ELSE PathStr(names[i]) \o FpFiles_NoMtime(fs, names, i + 1)

\* The bytes _fp feeds to sha256, in order; the digest is taken to be
\* collision-free, so the fingerprint is this sequence.
RECURSIVE FpFiles(_, _, _)
FpFiles(fs, names, i) ==
    IF i > Len(names) THEN <<>>
    ELSE PathStr(names[i]) \o Str(fs[names[i]].mtime) \o FpFiles(fs, names, i + 1)

FpOf(fs, model_name, code_rev) ==
    <<model_name, code_rev>> \o FpFiles(fs, GlobMd(fs), 1)

\* The built-in texts, abridged to their first four characters.
Builtin ==
    << [text |-> <<"U57FA","U7840","U996E","U98DF">>,
        meta |-> [path |-> <<"builtin/diet">>, chunk_id |-> <<"diet-1">>,
                  topic |-> "diet"]],
       [text |-> <<"U57FA","U7840","U8BAD","U7EC3">>,
        meta |-> [path |-> <<"builtin/exercise">>, chunk_id |-> <<"ex-1">>,
                  topic |-> "exercise"]],
       [text |-> <<"U57FA","U7840","U62A4","U80A4">>,
        meta |-> [path |-> <<"builtin/skincare">>, chunk_id |-> <<"sk-1">>,
                  topic |-> "skincare"]] >>

FileChunks(fs, name, size, overlap) ==
    Let(chunk_text(fs[name].text, size, overlap), LAMBDA parts :
    Let(topic_of(name), LAMBDA topic :
        [i \in 1..Len(parts) |->
            [text |-> parts[i],
             meta |-> [path |-> PathStr(name),
                       chunk_id |-> name \o <<" ", "U00A7">> \o Str(i),
                       topic |-> topic]]]))

RECURSIVE AllChunks(_, _, _, _, _)
AllChunks(fs, names, i, size, overlap) ==
    IF i > Len(names) THEN <<>>
    ELSE FileChunks(fs, names[i], size, overlap)
             \o AllChunks(fs, names, i + 1, size, overlap)

\* the loop over the files alone, without the built-in texts
BuildChunks_NoBuiltin(cfg, fs) ==
    AllChunks(fs, GlobMd(fs), 1, cfg.chunk_size, cfg.overlap)

BuildChunks(cfg, fs) ==
    Let(GlobMd(fs), LAMBDA names :
        IF names = <<>> THEN Builtin
        ELSE AllChunks(fs, names, 1, cfg.chunk_size, cfg.overlap))

RECURSIVE SetToSeq(_)
SetToSeq(S) ==
    IF S = {} THEN <<>>
    ELSE Let(CHOOSE y \in S : TRUE, LAMBDA x : <<x>> \o SetToSeq(S \ {x}))

\* the dense matrix of the distinct passages only
BuildEmbed_Dedup(model, chunks) ==
    Let(SetToSeq({chunks[i].text : i \in 1..Len(chunks)}), LAMBDA texts :
        [i \in 1..Len(texts) |-> encode(model, PassagePrefix \o texts[i])])

BuildEmbed(model, chunks) ==
    [i \in 1..Len(chunks) |-> encode(model, PassagePrefix \o chunks[i].text)]

BuildTfidf(cfg, chunks) ==
    IF cfg.enable_hybrid
    THEN tfidf_fit([i \in 1..Len(chunks) |-> chunks[i].text],
                   cfg.tfidf_max_df, cfg.tfidf_ngram)
    ELSE [raised |-> FALSE, vec |-> NoneObj, mat |-> NoneObj]

\* _build_index up to the cache write: the four index attributes, or raised
BuildIndexOf(cfg, model, fs) ==
    Let(BuildChunks(cfg, fs), LAMBDA chunks :
    Let(BuildTfidf(cfg, chunks), LAMBDA t :
        [raised |-> t.raised,
         chunks |-> chunks,
         embed_mat |-> BuildEmbed(model, chunks),
         tfidf_vec |-> t.vec,
         tfidf_mat |-> t.mat]))

\* BuildIndexOf, tabulated over the corpora and configurations of the model
BuildTable ==
    Force([x \in AllCfgs \X ModelNames \X [Names -> FileStates] |->
              BuildIndexOf(x[1], x[2], x[3])])

build_index(cfg, model, fs) == BuildTable[<<cfg, model, fs>>]

\* FpOf, tabulated likewise
FpTable ==
    Force([x \in [Names -> FileStates] \X ModelNames |-> FpOf(x[1], x[2], CODE_REV)])

fp(fs, model_name) == FpTable[<<fs, model_name>>]

Step ==
    /\ steps < MaxSteps
    /\ steps' = steps + 1

\* The retriever object: its configuration, the model handle and the index.
Service(cfg, model, fingerprint, ix) ==
    [kind |-> "svc",
     model_name |-> cfg.model_name, chunk_size |-> cfg.chunk_size,
     overlap |-> cfg.overlap, min_score |-> cfg.min_score,
     topic_boost |-> cfg.topic_boost, off_topic_penalty |-> cfg.off_topic_penalty,
     enable_hybrid |-> cfg.enable_hybrid, tfidf_max_df |-> cfg.tfidf_max_df,
     tfidf_ngram |-> cfg.tfidf_ngram, embed_weight |-> cfg.embed_weight,
     tfidf_weight |-> cfg.tfidf_weight,
     model |-> model, fingerprint |-> fingerprint,
     chunks |-> ix.chunks, embed_mat |-> ix.embed_mat,
     tfidf_vec |-> ix.tfidf_vec, tfidf_mat |-> ix.tfidf_mat]

\* The pickled dict; by and src record the retriever that wrote it and the
\* files it was built from.
SavedCache(s, fs) ==
    [kind |-> "dict", keys |-> CacheKeys,
     fingerprint |-> s.fingerprint, chunks |-> s.chunks, embed_mat |-> s.embed_mat,
     tfidf_vec |-> s.tfidf_vec, tfidf_mat |-> s.tfidf_mat,
     by |-> [model |-> s.model, enable_hybrid |-> s.enable_hybrid,
             min_score |-> s.min_score, embed_weight |-> s.embed_weight,
             tfidf_weight |-> s.tfidf_weight, topic_boost |-> s.topic_boost,
             off_topic_penalty |-> s.off_topic_penalty],
     src |-> fs]

\* data.get(key)
CacheGet(c, key, field) == IF key \in c.keys THEN field ELSE NoneObj

\* a construction that never takes its index from the cache file
LoadPath_NeverLoad(c, fingerprint) ==
    IF c.kind = "none" THEN "build"
    ELSE IF c.kind = "garbage" THEN "build"
    ELSE "build_in_try"

\* a load that takes any readable cache, whatever fingerprint it stores
LoadPath_NoCompare(c, fingerprint) ==
    IF c.kind = "none" THEN "build"
    ELSE IF c.kind = "garbage" THEN "build"
    ELSE IF "chunks" \in c.keys /\ "embed_mat" \in c.keys THEN "loaded"
    ELSE "build"

\* How __init__ gets its index from the cache file: "loaded", or "build"
\* (one call of _build_index), or "build_in_try" (a call inside the try,
\* repeated by the except clause when it raises).  Every exception of the
\* load is caught, so no path is "raise".
LoadPath(c, fingerprint) ==
    IF c.kind = "none" THEN "build"
    ELSE IF c.kind = "garbage" THEN "build"
    ELSE IF "fingerprint" \in c.keys /\ c.fingerprint = fingerprint
         THEN IF "chunks" \in c.keys /\ "embed_mat" \in c.keys
              THEN "loaded" ELSE "build"
         ELSE "build_in_try"

LoadedIndex(c) ==
    [chunks |-> c.chunks, embed_mat |-> c.embed_mat,
     tfidf_vec |-> CacheGet(c, "tfidf_vec", c.tfidf_vec),
     tfidf_mat |-> CacheGet(c, "tfidf_mat", c.tfidf_mat)]

SaveOutcomes == {"ok", "open_failed", "write_failed"}

\* the cache write without its try/except
SaveRaises_NoCatch(save) == save # "ok"

\* Whether the cache write makes _build_index raise: its except clause
\* swallows every failure.
SaveRaises(save) == FALSE

\* The cache file after the write at the end of _build_index.
CacheAfterSave(c, s, fs, save) ==
    IF save = "ok" THEN SavedCache(s, fs)
    ELSE IF save = "open_failed" THEN c
    ELSE BadCache

\* What a construction found at cache_path.
Seen(c) ==
    IF c.kind = "dict"
    THEN [kind |-> "dict", keys |-> c.keys, fingerprint |-> c.fingerprint, src |-> c.src]
    ELSE [kind |-> c.kind]

\* a construction that loads its model whatever _MODEL holds
LoadModel_Always(m, model_name) == model_name

LoadModel(m, model_name) == IF m = None THEN model_name ELSE m

\* ChunkedSemanticRetriever(**cfg)
Construct(cfg, save) ==
    \E model \in {LoadModel(MODEL, cfg.model_name)},
       fingerprint \in {fp(files, cfg.model_name)},
       before \in {Seen(cache)} :
    \E path \in {LoadPath(cache, fingerprint)},
       b \in {build_index(cfg, model, files)} :
    \E built \in {Service(cfg, model, fingerprint, b)} :
        /\ MODEL' = model
        /\ IF path = "loaded"
           THEN /\ svc' = Service(cfg, model, fingerprint, LoadedIndex(cache))
                /\ cache' = cache
                /\ save = "ok"
                /\ last' = [op |-> "init", how |-> "loaded", fingerprint |-> fingerprint,
                            builds |-> 0, save |-> "none", before |-> before]
           ELSE IF path = "raise" \/ b.raised
           THEN /\ svc' = NoSvc
                /\ cache' = cache
                /\ save = "ok"
                /\ last' = [op |-> "init", how |-> "raised", fingerprint |-> fingerprint,
                            builds |-> IF path = "raise" THEN 0
                                       ELSE IF path = "build_in_try" THEN 2 ELSE 1,
                            save |-> "none", before |-> before]
           ELSE IF SaveRaises(save)
           THEN /\ svc' = NoSvc
                /\ cache' = CacheAfterSave(cache, built, files, save)
                /\ last' = [op |-> "init", how |-> "raised", fingerprint |-> fingerprint,
                            builds |-> IF path = "build_in_try" THEN 2 ELSE 1,
                            save |-> save, before |-> before]
           ELSE /\ svc' = built
                /\ cache' = CacheAfterSave(cache, built, files, save)
                /\ last' = [op |-> "init", how |-> "built", fingerprint |-> fingerprint,
                            builds |-> 1, save |-> save, before |-> before]
        /\ memo' = NoMemo
        /\ UNCHANGED <<files, ties>>

\* self after a search that gates the dense matrix in place
self_after_search_inplace(s, query) ==
    Let(GateFactors(s, query), LAMBDA g :
        [s EXCEPT !.embed_mat =
            Seq_([i \in 1..Len(s.embed_mat) |->
                     <<(s.embed_mat[i][1] * g[i]) \div Scale,
                       (s.embed_mat[i][2] * g[i]) \div Scale>>])])

\* self after a search that writes the scores into the stored metadata
\* (meta = self.chunks[i][1] without dict())
self_after_search_shared_meta(s, query) ==
    Let(Scores(s, query).sims_hybrid, LAMBDA h :
        [s EXCEPT !.chunks =
            Seq_([i \in 1..Len(s.chunks) |->
                     [text |-> s.chunks[i].text,
                      meta |-> [path |-> s.chunks[i].meta.path,
                                chunk_id |-> s.chunks[i].meta.chunk_id,
                                topic |-> s.chunks[i].meta.topic,
                                score_hybrid |-> h[i]]]])])

\* self after a search: search assigns no attribute and works on fresh arrays
self_after_search(s, query) == s

\* retriever.search(query, k); memo keeps the first call on this retriever
Search(query, k) ==
    /\ svc # NoSvc
    /\ \E c \in {SearchCall(svc, query, k, ties)} :
       \E out \in {[raised |-> c.raised, results |-> c.results]} :
           /\ last' = [op |-> "search", query |-> query, k |-> k, out |-> out,
                       sims_hybrid |-> c.sims_hybrid]
           /\ memo' = IF memo.set
                      THEN [memo EXCEPT !.others = @ \/ query # memo.query]
                      ELSE [set |-> TRUE, query |-> query, k |-> k, out |-> out,
                            others |-> FALSE]
    /\ svc' = self_after_search(svc, query)
    /\ UNCHANGED <<files, cache, MODEL, ties>>

\* ------------------------------------------------------------ environment
Event ==
    /\ last' = NoCall
    /\ UNCHANGED ties

\* The timestamps a write can leave on a file: the one it had (a write within
\* the clock's resolution, or one that restores the timestamp) or a later one.
MtimesAfter(f) ==
    IF f.exists THEN {f.mtime, f.mtime + 1} \cap (1..MaxMtime) ELSE {1}

\* A source file is created or rewritten, with any content.
WriteFile(name, text, mtime) ==
    /\ Event
    /\ mtime \in MtimesAfter(files[name])
    /\ files[name] # [exists |-> TRUE, text |-> text, mtime |-> mtime]
    /\ files' = [files EXCEPT ![name] = [exists |-> TRUE, text |-> text, mtime |-> mtime]]
    /\ UNCHANGED <<cache, MODEL, svc, memo>>

RemoveFile(name) ==
    /\ Event
    /\ files[name].exists
    /\ files' = [files EXCEPT ![name] = NoFile]
    /\ UNCHANGED <<cache, MODEL, svc, memo>>

\* The cache file is damaged: unreadable, or a dict that lost an entry.
DamageCache(key) ==
    /\ Event
    /\ cache.kind = "dict"
    /\ cache' = IF key = "all" THEN BadCache
                ELSE [cache EXCEPT !.keys = cache.keys \ {key}]
    /\ cache' # cache
    /\ UNCHANGED <<files, MODEL, svc, memo>>

\* The tag a cache file carries when an earlier revision of the code saved it.
PrevRev == "hybrid-v1"

\* The code is replaced by the revision with CODE_REV while the cache file on
\* disk is one its predecessor saved; the process starts anew.
Upgrade ==
    /\ Event
    /\ cache.kind = "dict"
    /\ "fingerprint" \in cache.keys
    /\ cache.fingerprint[2] = CODE_REV
    /\ cache' = [cache EXCEPT !.fingerprint[2] = PrevRev]
    /\ MODEL' = None
    /\ svc' = NoSvc
    /\ memo' = NoMemo
    /\ UNCHANGED files

\* The process ends and a new one starts.
Restart ==
    /\ Event
    /\ svc # NoSvc \/ MODEL # None
    /\ MODEL' = None
    /\ svc' = NoSvc
    /\ memo' = NoMemo
    /\ UNCHANGED <<files, cache>>

\* ---------------------------------------------------------- specifications

Init ==
    /\ files = [n \in Names |-> NoFile]
    /\ cache = NoCache
    /\ MODEL = None
    /\ svc = NoSvc
    /\ ties = "lower_first"
    /\ last = NoCall
    /\ memo = NoMemo
    /\ steps = 0

Next ==
    \/ \E cfg \in Cfgs, save \in SaveOutcomes : Step /\ Construct(cfg, save)
    \/ \E n \in Names, t \in Docs, m \in 1..MaxMtime : Step /\ WriteFile(n, t, m)
    \/ \E n \in Names : Step /\ RemoveFile(n)
    \/ \E key \in CacheKeys \cup {"all"} : Step /\ DamageCache(key)
    \/ Step /\ Restart
    \/ Step /\ Upgrade

Spec == Init /\ [][Next]_vars

\* Search on the retrievers of every corpus: the files are there from the
\* start and do not change, and a process constructs one retriever and then
\* searches it any number of times.
SearchCorpora == [Names -> {NoFile} \cup [exists : {TRUE}, text : Docs, mtime : {1}]]

Ks == 0..MaxK

InitSearch ==
    /\ files \in SearchCorpora
    /\ cache = NoCache
    /\ MODEL = None
    /\ svc = NoSvc
    /\ ties \in TieOrders
    /\ last = NoCall
    /\ memo = NoMemo
    /\ steps = 0

NextSearch ==
    \/ \E cfg \in SearchCfgs : svc = NoSvc /\ Construct(cfg, "ok") /\ UNCHANGED steps
    \/ \E q \in Queries, k \in Ks : Search(q, k) /\ UNCHANGED steps

SpecSearch == InitSearch /\ [][NextSearch]_vars

\* _chunk_text on its own: a caller holding a document, a size and an overlap
\* calls it once.
ChunkChars == {"a", "b", " ", "\n"}
ChunkTexts == UNION {[1..n -> ChunkChars] : n \in 0..MaxLen}

ChunkText ==
    /\ last.op = "doc"
    /\ last' = [op |-> "chunk", text |-> last.text, size |-> last.size,
                overlap |-> last.overlap,
                out |-> chunk_text(last.text, last.size, last.overlap)]
    /\ UNCHANGED <<files, cache, MODEL, svc, ties, memo, steps>>

InitChunk ==
    /\ files = [n \in Names |-> NoFile]
    /\ cache = NoCache
    /\ MODEL = None
    /\ svc = NoSvc
    /\ ties = "lower_first"
    /\ last \in [op : {"doc"}, text : ChunkTexts, size : 0..MaxSize,
                  overlap : 0..MaxOverlap]
    /\ memo = NoMemo
    /\ steps = 0

NextChunk == ChunkText

SpecChunk == InitChunk /\ [][NextChunk]_vars

\* _topic_of on its own: a caller holding a file name calls it once.  Names
\* are made of at most MaxParts parts: the rule substrings, some in capitals,
\* and parts no rule holds.
NameParts ==
    { <<"s","k","i","n">>, <<"S","k","i","n">>, <<"c","a","r","e">>,
      <<"e","x","e","r","c","i","s","e">>, <<"T","R","A","I","N">>,
      <<"d","i","e","t">>, <<"n","u","t","r","i">>, <<"s","l","e","e","p">>,
      <<"p","s","y","c","h","o","l","o","g","y">>,
      <<"s","k","i">>, <<"n","o","t","e","s">>, <<"_">>, <<".","m","d">> }

RECURSIVE Joined(_)
Joined(parts) == IF parts = <<>> THEN <<>> ELSE Head(parts) \o Joined(Tail(parts))

TopicNames == {Joined(ps) : ps \in UNION {[1..n -> NameParts] : n \in 0..MaxParts}}

TopicOf ==
    /\ last.op = "name"
    /\ last' = [op |-> "topic", name |-> last.name, out |-> topic_of(last.name)]
    /\ UNCHANGED <<files, cache, MODEL, svc, ties, memo, steps>>

InitTopic ==
    /\ files = [n \in Names |-> NoFile]
    /\ cache = NoCache
    /\ MODEL = None
    /\ svc = NoSvc
    /\ ties = "lower_first"
    /\ last \in [op : {"name"}, name : TopicNames]
    /\ memo = NoMemo
    /\ steps = 0

NextTopic == TopicOf

SpecTopic == InitTopic /\ [][NextTopic]_vars

\* ------------------------------------------------------------------ claims
Searched == last.op = "search" /\ ~last.out.raised
Constructed == last.op = "init"
NFragments == Len(svc.chunks)
Returned == {last.out.results[r].idx : r \in 1..Len(last.out.results)}
PosOf(i) == CHOOSE r \in 1..Len(last.out.results) : last.out.results[r].idx = i
Clearing == {i \in 1..Len(last.sims_hybrid) : last.sims_hybrid[i] >= svc.min_score}
InUnit(x) == 0 <= x /\ x <= Scale

\* C1: a search with k >= 0 returns at most min(k, number of fragments)
\* results, and every score_embed, score_tfidf and score_hybrid it returns
\* lies in [0, 1].
C1_BoundedResults ==
    Searched /\ last.k >= 0 =>
        /\ Len(last.out.results) <= Min2(last.k, NFragments)
        /\ \A r \in 1..Len(last.out.results) :
              /\ InUnit(last.out.results[r].meta.score_embed)
              /\ InUnit(last.out.results[r].meta.score_tfidf)
              /\ InUnit(last.out.results[r].meta.score_hybrid)
              /\ InUnit(last.out.results[r].score)

\* A search cut at k whose first result has a gated dense score clamped to 1.
C1_Witness ==
    /\ Searched
    /\ last.k = 1
    /\ NFragments >= 2
    /\ Len(last.out.results) = 1
    /\ QueryTable[last.query].hint # None
    /\ last.out.results[1].meta.score_embed = Scale

\* C2: of two candidate fragments with equal score_hybrid, search ranks the
\* one with the lower insertion index first (a returned fragment is preceded
\* by every candidate that ties with it and was inserted before it).
C2_StableTieBreak ==
    Searched =>
        LET cand == IF Clearing # {} THEN Clearing ELSE 1..NFragments
        IN  \A i \in cand, j \in cand :
                i < j /\ last.sims_hybrid[i] = last.sims_hybrid[j] /\ j \in Returned
                    => i \in Returned /\ PosOf(i) < PosOf(j)

\* C3: a search with the query and k of an earlier search on the same
\* retriever returns what that search returned, whatever was searched in
\* between.
C3_Deterministic ==
    last.op = "search" /\ memo.set /\ last.query = memo.query /\ last.k = memo.k
        => last.out = memo.out

\* The first search is repeated after a search with another query, and its
\* results hold two fragments that tie on score_hybrid.
C3_Witness ==
    /\ Searched
    /\ memo.set /\ memo.others
    /\ last.query = memo.query /\ last.k = memo.k
    /\ Len(last.out.results) = 2
    /\ last.out.results[1].score = last.out.results[2].score
    /\ QueryTable[last.query].hint # None

MtimeChanged(src, fs) ==
    \E n \in Names : src[n].exists /\ fs[n].exists /\ src[n].mtime # fs[n].mtime

TextChanged(src, fs) ==
    \E n \in Names : src[n].exists /\ fs[n].exists /\ src[n].text # fs[n].text

FoundSavedCache ==
    Constructed /\ last.before.kind = "dict" /\ "fingerprint" \in last.before.keys

Rebuilt == last.how # "loaded" /\ last.builds >= 1

BuilderOf(c, s) ==
    [s EXCEPT !.model = c.by.model, !.chunks = c.chunks, !.embed_mat = c.embed_mat,
              !.tfidf_vec = c.tfidf_vec, !.tfidf_mat = c.tfidf_mat]

SameSettings(c, s) ==
    /\ c.by.enable_hybrid = s.enable_hybrid
    /\ c.by.min_score = s.min_score
    /\ c.by.embed_weight = s.embed_weight
    /\ c.by.tfidf_weight = s.tfidf_weight
    /\ c.by.topic_boost = s.topic_boost
    /\ c.by.off_topic_penalty = s.off_topic_penalty

\* C5: a construction that computes the fingerprint of the cache file as its
\* builder saved it, and loads it, answers every query and k as the builder
\* does (both with the same search settings).
C5_CacheRoundTrip ==
    Constructed /\ last.how = "loaded" /\ cache.keys = CacheKeys /\ SameSettings(cache, svc)
        => \A q \in Queries, k \in Ks :
              search(svc, q, k, ties) = search(BuilderOf(cache, svc), q, k, ties)

DamagedCache(seen) ==
    seen.kind = "garbage" \/ (seen.kind = "dict" /\ seen.keys # CacheKeys)

\* C6: a construction that finds a cache file it cannot read, or one that
\* lacks an entry, does not take its index from it: it builds the index.
C6_DamagedCacheRebuilds ==
    Constructed /\ DamagedCache(last.before) => Rebuilt

IndexComplete(s) ==
    /\ Len(s.embed_mat) = Len(s.chunks)
    /\ s.enable_hybrid =>
          /\ s.tfidf_vec # NoneObj
          /\ s.tfidf_mat # NoneObj
          /\ Len(s.tfidf_mat.rows) = Len(s.chunks)

\* C7: a construction whose cache write fails completes with a complete
\* index that search accepts, and a construction that finds no cache file or
\* an unreadable one builds the index.
C7_SaveFailureTolerated ==
    /\ Constructed /\ last.save \in {"open_failed", "write_failed"} =>
          /\ last.how = "built"
          /\ svc # NoSvc
          /\ IndexComplete(svc)
          /\ Len(svc.chunks) >= 1 =>
                \A q \in Queries : ~SearchCall(svc, q, 1, ties).raised
    /\ Constructed /\ last.before.kind \in {"none", "garbage"} => Rebuilt

\* A construction found the partial file a failed write left, and built.
C7_Witness ==
    /\ Constructed
    /\ last.before.kind = "garbage"
    /\ last.how = "built"
    /\ last.save = "write_failed"
    /\ Len(svc.chunks) >= 2

\* C8 as claimed: a constructed retriever has as many dense rows and as many
\* lexical rows as fragments.
C8_ShapeInvariant ==
    svc # NoSvc =>
        /\ Len(svc.embed_mat) = Len(svc.chunks)
        /\ svc.tfidf_mat # NoneObj
        /\ Len(svc.tfidf_mat.rows) = Len(svc.chunks)

\* C8 as amended: a constructed retriever has as many dense rows as
\* fragments, and as many lexical rows whenever it has a lexical matrix.
C8_ShapeWhenPresent ==
    svc # NoSvc =>
        /\ Len(svc.embed_mat) = Len(svc.chunks)
        /\ svc.tfidf_mat # NoneObj => Len(svc.tfidf_mat.rows) = Len(svc.chunks)

\* A retriever loaded from the cache with four fragments, two of them with
\* the same text, and a lexical matrix.
C8_Witness ==
    /\ Constructed
    /\ last.how = "loaded"
    /\ Len(svc.chunks) = 4
    /\ svc.chunks[1].text = svc.chunks[3].text
    /\ svc.tfidf_mat # NoneObj

\* C9: with k >= 1 and at least one fragment, when no fragment has
\* score_hybrid >= min_score, search returns min(k, number of fragments)
\* results.
C9_ThresholdFallback ==
    Searched /\ last.k >= 1 /\ NFragments >= 1 /\ Clearing = {}
        => Len(last.out.results) = Min2(last.k, NFragments)

\* No fragment clears the threshold and search returns two of several.
C9_Witness ==
    /\ Searched
    /\ last.k = 2
    /\ NFragments >= 3
    /\ Clearing = {}
    /\ Len(last.out.results) = 2

\* C10: when some fragment has score_hybrid >= min_score, search returns
\* min(k, number of such fragments) results, each with score_hybrid >=
\* min_score.
C10_ThresholdFilter ==
    Searched /\ last.k >= 0 /\ Clearing # {} =>
        /\ Len(last.out.results) = Min2(last.k, Cardinality(Clearing))
        /\ \A r \in 1..Len(last.out.results) :
              last.out.results[r].meta.score_hybrid >= svc.min_score

\* One fragment of several clears the threshold and k = 2 returns it alone.
C10_Witness ==
    /\ Searched
    /\ last.k = 2
    /\ NFragments >= 3
    /\ Cardinality(Clearing) = 1
    /\ Len(last.out.results) = 1

\* The retriever with the gating of lines 207-211 left out: both factors 1.0.
Ungated(s) == [s EXCEPT !.topic_boost = Scale, !.off_topic_penalty = Scale]

RECURSIVE SumOver(_, _)
SumOver(h, idx) ==
    IF idx = {} THEN 0
    ELSE Let(CHOOSE i \in idx : TRUE, LAMBDA i : h[i] + SumOver(h, idx \ {i}))

OnTopic(s, query) ==
    {i \in 1..Len(s.chunks) : s.chunks[i].meta.topic = QueryTable[query].hint}

OffTopic(s, query) == (1..Len(s.chunks)) \ OnTopic(s, query)

GatedQuery ==
    /\ Searched
    /\ QueryTable[last.query].hint # None
    /\ OnTopic(svc, last.query) # {}
    /\ OffTopic(svc, last.query) # {}
    /\ svc.topic_boost >= Scale
    /\ svc.off_topic_penalty \in 0..Scale
    /\ svc.embed_weight >= 0 /\ svc.tfidf_weight >= 0

\* C11: for a query with inferred topic T on an index with fragments of topic
\* T and of other topics (boost >= 1, 0 <= penalty <= 1, weights >= 0), the
\* score_hybrid of the T fragments sums (and so averages) to at least what it
\* does without gating, and that of the other fragments to at most that.
C11_GatingMonotone ==
    GatedQuery =>
        Let(Scores(Ungated(svc), last.query).sims_hybrid, LAMBDA plain :
            /\ SumOver(last.sims_hybrid, OnTopic(svc, last.query))
                  >= SumOver(plain, OnTopic(svc, last.query))
            /\ SumOver(last.sims_hybrid, OffTopic(svc, last.query))
                  <= SumOver(plain, OffTopic(svc, last.query)))

\* A gated search that raised the sum for topic T and lowered the other one.
C11_Witness ==
    /\ GatedQuery
    /\ Let(Scores(Ungated(svc), last.query).sims_hybrid, LAMBDA plain :
           /\ SumOver(last.sims_hybrid, OnTopic(svc, last.query))
                 > SumOver(plain, OnTopic(svc, last.query))
           /\ SumOver(last.sims_hybrid, OffTopic(svc, last.query))
                 < SumOver(plain, OffTopic(svc, last.query)))

Topics(s) == [i \in 1..Len(s.chunks) |-> s.chunks[i].meta.topic]

BuiltOverNoFile == Constructed /\ last.how = "built" /\ GlobMd(files) = <<>>

\* C12: a construction that finds no .md file under the knowledge-base
\* directory and builds its index (it reuses no cache) holds exactly three
\* fragments, tagged diet, exercise, skincare in this order.
C12_BuiltinFallback ==
    BuiltOverNoFile => Topics(svc) = <<"diet", "exercise", "skincare">>

\* A hybrid index built over the built-in texts, a cache file being present.
C12_Witness ==
    /\ BuiltOverNoFile
    /\ last.before.kind # "none"
    /\ svc.enable_hybrid
    /\ svc.chunks = Builtin
    /\ IndexComplete(svc)

\* C13: every construction, over whatever the knowledge-base directory holds,
\* completes with an index of at least one fragment.
C13_AlwaysQueryable ==
    Constructed => svc # NoSvc /\ NFragments >= 1

\* C14: a search over an index of zero fragments raises nothing and returns
\* the empty sequence.
C14_EmptyIndexSearch ==
    last.op = "search" /\ NFragments = 0 =>
        ~last.out.raised /\ last.out.results = <<>>

Chunked == last.op = "chunk"

\* The non-blank paragraphs of a document: the stripped pieces between its
\* blank lines that are not empty.
Paragraphs(text) == StripNonEmpty(SplitBlank(text, 1, <<>>))

\* C15: every non-blank paragraph of a document appears in full inside the
\* text of at least one fragment _chunk_text returns for it, whatever the size
\* and the overlap.
C15_ChunkerCoverage ==
    Chunked =>
        \A j \in 1..Len(Paragraphs(last.text)) :
            \E i \in 1..Len(last.out) :
                Contains(last.out[i], Paragraphs(last.text)[j])

\* C16: _chunk_text returns no fragment for the empty document, whatever the
\* size and the overlap.
C16_EmptyDocument ==
    Chunked /\ last.text = <<>> => last.out = <<>>

\* The empty document chunked with a positive size and a positive overlap.
C16_Witness ==
    /\ Chunked
    /\ last.text = <<>>
    /\ last.size > 0
    /\ last.overlap > 0
    /\ last.out = <<>>

\* C17: within a process, a construction or a search that finds the shared
\* model loaded leaves it as it is, and every instance a construction
\* completes holds the shared model.
C17_ModelSingleton ==
    [][last'.op # "none" =>
          /\ MODEL # None => MODEL' = MODEL
          /\ svc' # NoSvc => svc'.model = MODEL']_vars

\* A construction asked for a model other than the one an earlier
\* construction of the process loaded, and holding the loaded one.
C17_Witness ==
    /\ Constructed
    /\ svc # NoSvc
    /\ svc.model_name # svc.model
    /\ svc.model = MODEL

\* The index of a retriever, its fingerprint included.
IndexOf(s) ==
    [chunks |-> s.chunks, embed_mat |-> s.embed_mat, tfidf_vec |-> s.tfidf_vec,
     tfidf_mat |-> s.tfidf_mat, fingerprint |-> s.fingerprint]

\* C18: a search leaves the fragment list, the dense matrix, the lexical
\* model and matrix and the fingerprint of its retriever as they were, and
\* returns what the same search returns on the index as the construction
\* built and saved it, whatever was searched before.
C18_IndexImmutable ==
    [][last'.op = "search" =>
          /\ IndexOf(svc') = IndexOf(svc)
          /\ MODEL' = MODEL
          /\ last'.out = search(BuilderOf(cache, svc'), last'.query, last'.k, ties)]_vars

\* A gated search that returned a result, made after searches with other
\* queries on a retriever whose index is still the one saved.
C18_Witness ==
    /\ Searched
    /\ memo.set /\ memo.others
    /\ last.query # memo.query
    /\ QueryTable[last.query].hint # None
    /\ Len(last.out.results) >= 1
    /\ IndexOf(svc) = IndexOf(BuilderOf(cache, svc))

FileAdded(src, fs) == \E n \in Names : ~src[n].exists /\ fs[n].exists

FileRemoved(src, fs) == \E n \in Names : src[n].exists /\ ~fs[n].exists

\* The construction found a saved cache and, since it was saved, a source
\* file was added or removed, or the model identifier or the version tag is
\* another one.
Invalidated ==
    /\ FoundSavedCache
    /\ \/ FileAdded(last.before.src, files)
       \/ FileRemoved(last.before.src, files)
       \/ last.before.fingerprint[1] # last.fingerprint[1]
       \/ last.before.fingerprint[2] # last.fingerprint[2]

ReusedOnlyOnEqual ==
    Constructed /\ last.how = "loaded" =>
        FoundSavedCache /\ last.before.fingerprint = last.fingerprint

CacheHoldsNew ==
    /\ cache.kind = "dict"
    /\ cache.keys = CacheKeys
    /\ cache.fingerprint = last.fingerprint

C20_FailFastBuild ==
    Constructed /\ last.how = "raised" => svc = NoSvc /\ last.builds = 1

\* The packed fragments of the document chunked last.
PackedLast == Packed(last.text, last.size)

\* The last n characters of s, all of s when it is shorter.
LastChars(s, n) == SubSeq(s, Len(s) - Min2(n, Len(s)) + 1, Len(s))

\* The first n characters of s, none for n <= 0, all when s is shorter.
FirstChars(s, n) == SubSeq(s, 1, Min2(Max2(n, 0), Len(s)))

\* C21 as claimed: with overlap O > 0 there are as many fragments as packed
\* fragments, the last is its packed text, and every other one is the last O
\* characters of its packed fragment followed by the first S - O characters
\* of the next packed fragment.
C21_OverlapReplaces ==
    Chunked /\ last.overlap > 0 =>
        /\ Len(last.out) = Len(PackedLast)
        /\ \A i \in 1..Len(last.out) :
              last.out[i] =
                  IF i = Len(last.out) THEN PackedLast[i]
                  ELSE LastChars(PackedLast[i], last.overlap)
                          \o FirstChars(PackedLast[i + 1], last.size - last.overlap)

\* C21, amended: the head taken from the next packed fragment is its first
\* S - t characters, t being the length of the tail actually taken (O, or the
\* whole packed fragment when it is shorter than O), and a fragment whose tail
\* leaves no room for a head (t >= S) keeps its packed text.
C21_OverlapFillsToSize ==
    Chunked /\ last.overlap > 0 =>
        /\ Len(last.out) = Len(PackedLast)
        /\ \A i \in 1..Len(last.out) :
              last.out[i] =
                  IF i = Len(last.out) THEN PackedLast[i]
                  ELSE IF Min2(last.overlap, Len(PackedLast[i])) >= last.size
                  THEN PackedLast[i]
                  ELSE LastChars(PackedLast[i], last.overlap)
                          \o FirstChars(PackedLast[i + 1],
                                        last.size - Min2(last.overlap, Len(PackedLast[i])))

\* A document of two packed fragments, the first shorter than the overlap:
\* its fragment takes more than S - O characters of the second.
C21_Witness ==
    /\ Chunked
    /\ last.overlap > 0
    /\ Len(last.out) = 2
    /\ Len(PackedLast[1]) < last.overlap
    /\ Len(last.out[1]) > Len(PackedLast[1]) + Max2(last.size - last.overlap, 0)
    /\ last.out[2] = PackedLast[2]

\* C22 as claimed: for a size S >= 1 every fragment _chunk_text returns has
\* at most S characters.
C22_SizeBound ==
    Chunked /\ last.size >= 1 =>
        \A i \in 1..Len(last.out) : Len(last.out[i]) <= last.size

\* C22, amended: for a size S >= 1 every fragment has at most S characters or
\* is, unchanged, one paragraph of the document that is longer than S.
C22_SizeBoundButLongParagraphs ==
    Chunked /\ last.size >= 1 =>
        \A i \in 1..Len(last.out) :
            \/ Len(last.out[i]) <= last.size
            \/ \E j \in 1..Len(Paras(last.text)) : last.out[i] = Paras(last.text)[j]

\* A fragment of exactly S characters followed by a fragment that is a
\* paragraph longer than S.
C22_Witness ==
    /\ Chunked
    /\ last.size >= 1
    /\ last.overlap = 0
    /\ Len(last.out) = 2
    /\ Len(last.out[1]) = last.size
    /\ Len(last.out[2]) > last.size

\* The fragments search ranks: those clearing min_score, or all of them when
\* none does.
Candidates ==
    IF Clearing = {} THEN 1..Len(last.sims_hybrid) ELSE Clearing

\* C23: the results of a search are in non-increasing order of score_hybrid,
\* the j-th carries the rank label str(j), no candidate left out scores
\* strictly more than a returned one, and no fragment is returned twice.
C23_RankedPrefix ==
    Searched =>
        /\ \A j \in 1..Len(last.out.results) :
              /\ last.out.results[j].rank = Str(j)
              /\ last.out.results[j].score = last.sims_hybrid[last.out.results[j].idx]
              /\ last.out.results[j].meta.score_hybrid = last.out.results[j].score
              /\ j > 1 => last.out.results[j - 1].score >= last.out.results[j].score
              /\ \A c \in Candidates \ Returned :
                    last.sims_hybrid[c] <= last.out.results[j].score
        /\ Returned \subseteq Candidates
        /\ Cardinality(Returned) = Len(last.out.results)

\* Two results of different scores, ranked "1" and "2", and a candidate of a
\* lower score left out by k.
C23_Witness ==
    /\ Searched
    /\ last.k = 2
    /\ Len(last.out.results) = 2
    /\ last.out.results[1].score > last.out.results[2].score
    /\ last.out.results[2].rank = Str(2)
    /\ \E c \in Candidates \ Returned :
          last.sims_hybrid[c] < last.out.results[2].score

\* embed_weight * e + tfidf_weight * t clamped to [0, 1], in thousandths.
Fused(e, t) ==
    Min2(Scale, Max2(0, (svc.embed_weight * e + svc.tfidf_weight * t) \div Scale))

\* C24: the score_hybrid of every result is the weighted sum of the
\* score_embed and score_tfidf reported in the same result, clamped to [0, 1],
\* whatever the weights sum to.
C24_FusionFormula ==
    Searched =>
        \A j \in 1..Len(last.out.results) :
            last.out.results[j].meta.score_hybrid =
                Fused(last.out.results[j].meta.score_embed,
                      last.out.results[j].meta.score_tfidf)

\* Weights summing to more than 1: a result whose weighted sum exceeds 1 and
\* is reported as 1, beside one whose sum is reported as it is.
C24_Witness ==
    /\ Searched
    /\ svc.embed_weight + svc.tfidf_weight > Scale
    /\ \E j \in 1..Len(last.out.results) :
          /\ svc.embed_weight * last.out.results[j].meta.score_embed
                + svc.tfidf_weight * last.out.results[j].meta.score_tfidf > Scale * Scale
          /\ last.out.results[j].meta.score_hybrid = Scale
    /\ \E j \in 1..Len(last.out.results) :
          /\ last.out.results[j].meta.score_hybrid > 0
          /\ last.out.results[j].meta.score_hybrid < Scale

\* The lower-cased query holds none of the keywords of _infer_topic.
NoKeyword(query) ==
    \A kw \in SkincareKw \cup ExerciseKw \cup DietKw \cup SleepKw \cup PsychologyKw :
        ~Contains(Lower(query), kw)

\* The retriever s with the topics of its fragments replaced by tm.
Retopic(s, tm) ==
    [s EXCEPT !.chunks =
        [i \in 1..Len(s.chunks) |->
            [text |-> s.chunks[i].text,
             meta |-> [s.chunks[i].meta EXCEPT !.topic = tm[i]]]]]

\* Order and scores of a list of results.
Ranking(results) ==
    [j \in 1..Len(results) |->
        <<results[j].idx, results[j].rank, results[j].score,
          results[j].meta.score_embed, results[j].meta.score_tfidf,
          results[j].meta.score_hybrid>>]

\* C25: for a query holding none of the topic keywords, _infer_topic returns
\* None and a search returns the same fragments in the same order with the
\* same scores whatever topics the fragments carry.
C25_NoHintNoGating ==
    Searched /\ NoKeyword(last.query) =>
        /\ infer_topic(last.query) = None
        /\ \A tm \in [1..NFragments -> {"skincare", "general"}] :
              Ranking(search(Retopic(svc, tm), last.query, last.k, ties).results)
                  = Ranking(last.out.results)

\* A search without hint returning fragments of two topics.
C25_Witness ==
    /\ Searched
    /\ NoKeyword(last.query)
    /\ Len(last.out.results) = 2
    /\ last.out.results[1].meta.topic # last.out.results[2].meta.topic
    /\ last.out.results[1].score > last.out.results[2].score

\* The rules of the claim, in its order: a topic and the substrings that
\* select it.
TopicRules ==
    << [topic |-> "skincare", subs |-> {<<"s","k","i","n">>, <<"c","a","r","e">>}],
       [topic |-> "exercise",
        subs |-> {<<"e","x","e","r","c","i","s","e">>, <<"t","r","a","i","n">>}],
       [topic |-> "diet", subs |-> {<<"d","i","e","t">>, <<"n","u","t","r","i">>}],
       [topic |-> "sleep", subs |-> {<<"s","l","e","e","p">>}],
       [topic |-> "psychology",
        subs |-> {<<"p","s","y","c","h","o","l","o","g","y">>}] >>

RuleMatches(name) ==
    {r \in 1..Len(TopicRules) :
        \E sub \in TopicRules[r].subs : Contains(Lower(name), sub)}

\* C26: _topic_of returns one topic of the closed set; general exactly when
\* the lower-cased name holds no rule substring; otherwise the topic of the
\* first matching rule in the order skincare, exercise, diet, sleep,
\* psychology.
C26_TopicOf ==
    last.op = "topic" =>
        /\ last.out \in {"skincare", "exercise", "diet", "sleep", "psychology", "general"}
        /\ last.out = "general" <=> RuleMatches(last.name) = {}
        /\ RuleMatches(last.name) # {} =>
              \E r \in RuleMatches(last.name) :
                  /\ \A r2 \in RuleMatches(last.name) : r <= r2
                  /\ last.out = TopicRules[r].topic

\* A name in capitals matching the exercise rule and the diet rule: exercise.
C26_Witness ==
    /\ last.op = "topic"
    /\ last.name # Lower(last.name)
    /\ RuleMatches(last.name) = {2, 3}
    /\ last.out = "exercise"

\* The configuration a retriever was constructed with.
CfgOf(s) == [f \in DOMAIN DefaultCfg |-> s[f]]

\* C27: a construction that reuses the cached index holds the index a build
\* from the current files under its own configuration produces.
C27_CachedMatchesConfig ==
    Constructed /\ last.how = "loaded" =>
        Let(build_index(CfgOf(svc), svc.model, files), LAMBDA fresh :
            /\ ~fresh.raised
            /\ svc.chunks = fresh.chunks
            /\ svc.embed_mat = fresh.embed_mat
            /\ svc.tfidf_vec = fresh.tfidf_vec
            /\ svc.tfidf_mat = fresh.tfidf_mat)

\* C28: the model a retriever encodes with is the one its model_name names.
C28_ModelIdentity ==
    svc # NoSvc => svc.model = svc.model_name

\* The step is a construction that finds the cache as a construction saved
\* it, with the source files as they were then, and is given the model
\* identifier and the version tag the cache was saved under.
HitStep ==
    /\ last'.op = "init"
    /\ cache.kind = "dict"
    /\ cache.keys = CacheKeys
    /\ cache.src = files
    /\ cache.fingerprint[1] = last'.fingerprint[1]
    /\ cache.fingerprint[2] = CODE_REV

\* C29: a construction that follows one that built and saved the index, with
\* the source files, the model identifier and the cache file unchanged, takes
\* its index from the cache: it builds nothing and leaves the cache file as
\* it is.
C29_CacheHitReadOnly ==
    [][HitStep =>
          /\ last'.how = "loaded"
          /\ last'.builds = 0
          /\ last'.save = "none"
          /\ cache' = cache
          /\ IndexOf(svc') = IndexOf(BuilderOf(cache, svc'))]_vars

\* A construction that loaded the index of two source files from the cache
\* the same model saved.
C29_Witness ==
    /\ Constructed
    /\ last.how = "loaded"
    /\ last.builds = 0
    /\ cache.kind = "dict" /\ cache.keys = CacheKeys /\ cache.src = files
    /\ cache.by.model = svc.model
    /\ \A n \in Names : files[n].exists
    /\ NFragments >= 2

\* A search with a topic hint under non-negative weights and factors.
HintedQuery ==
    /\ Searched
    /\ QueryTable[last.query].hint # None
    /\ svc.embed_weight >= 0 /\ svc.tfidf_weight >= 0
    /\ svc.topic_boost >= 0 /\ svc.off_topic_penalty >= 0

SameTopic(i, j) == svc.chunks[i].meta.topic = svc.chunks[j].meta.topic

\* C30 as claimed: of two fragments of one topic, the one with the higher or
\* equal score_hybrid without gating has the higher or equal score_hybrid with
\* gating.
C30_GatingKeepsOrder ==
    HintedQuery =>
        Let(Scores(Ungated(svc), last.query).sims_hybrid, LAMBDA plain :
            \A i, j \in 1..NFragments :
                SameTopic(i, j) /\ plain[i] >= plain[j]
                    => last.sims_hybrid[i] >= last.sims_hybrid[j])

\* C30, amended: of two fragments of one topic, the one whose score_embed and
\* score_tfidf without gating are both higher or equal has the higher or equal
\* score_hybrid with gating.
C30_GatingKeepsDominance ==
    HintedQuery =>
        Let(Scores(Ungated(svc), last.query), LAMBDA plain :
            \A i, j \in 1..NFragments :
                /\ SameTopic(i, j)
                /\ plain.sims_embed[i] >= plain.sims_embed[j]
                /\ plain.sims_tfidf[i] >= plain.sims_tfidf[j]
                => last.sims_hybrid[i] >= last.sims_hybrid[j])

\* Two fragments of the hinted topic, the first ahead on both signals without
\* gating and still ahead with gating, its score raised by the boost.
C30_Witness ==
    /\ HintedQuery
    /\ Let(Scores(Ungated(svc), last.query), LAMBDA plain :
           \E i, j \in 1..NFragments :
               /\ i # j
               /\ SameTopic(i, j)
               /\ svc.chunks[i].meta.topic = QueryTable[last.query].hint
               /\ plain.sims_embed[i] > plain.sims_embed[j]
               /\ plain.sims_tfidf[i] >= plain.sims_tfidf[j]
               /\ last.sims_hybrid[i] > last.sims_hybrid[j]
               /\ last.sims_hybrid[i] > plain.sims_hybrid[i])

====
